---- MODULE Spec2Model ----
(***************************************************************************)
(* Model of django-chunked-upload (emencia fork): the chunk upload view     *)
(* (ChunkedUploadView.post), the offset view (ChunkedUploadOffsetView.get)  *)
(* and the management command delete_expired_uploads.                       *)
(*                                                                          *)
(* Spec and SpecOwners take each request as one step (one user, and two     *)
(* users with the same upload id).  SpecAbort and SpecRace take post as the *)
(* steps it makes on the table and the storage, with a request that is      *)
(* aborted while its chunk is appended, and with two interleaved requests.  *)
(*                                                                          *)
(* The ChunkedUpload model class (models.py), constants.py and settings.py  *)
(* are not part of the sources at hand; the definitions that stand for     *)
(* them (Expired, ChunkFits, AppendFile, AppendOffset, FreshFile, Md5, ...) *)
(* follow the written specification.                                        *)
(***************************************************************************)
EXTENDS Integers, Sequences, FiniteSets

VARIABLES
    store,   \* the ChunkedUpload table: a set of persisted records
    files,   \* the file storage: file name -> content (sequence of bytes)
    now,     \* the clock (timezone.now())
    resp,    \* the response to the request handled last
    last,    \* which handler ran last, and how it came by its record
    pending, \* the requests in the middle of post, by worker (see PostSteps)
    nextid   \* the primary key that the next inserted row gets

vars == <<store, files, now, resp, last, pending, nextid>>

(*************************** bounds of the model ***************************)
MaxTime == 2      \* the clock runs from 0 to MaxTime
MaxPos == 2       \* the numbers of a Content-Range header are in 0..MaxPos
MaxChunk == 1     \* a chunk holds at most MaxChunk bytes
MaxFiles == 2     \* the storage holds at most MaxFiles files
MaxIds == 3       \* at most MaxIds rows are ever inserted

(*************************** program constants *****************************)
\* settings.EXPIRATION_DELTA, in clock ticks
EXPIRATION_DELTA == 1

\* constants.py: the three values of ChunkedUpload.status
UPLOADING == "IN_PROGRESS"
COMPLETE == "COMPLETE"
FAILED == "FAILED"

\* Python's None, for a text (request.POST.get) and for a DateTimeField
None == "None"
NULL == 0 - 1

\* the users that send requests
Users == {"alice"}
\* the values of a byte; the content of a file is told by its length
Bytes == {0}
\* the md5 hex digests that exist in the model
Digests == {"d0", "d1"}
\* the digests that clients send as the upload id (request.POST['md5'])
UploadIds == {"d0"}

Chunks == UNION {[1..n -> Bytes] : n \in 0..MaxChunk}

\* request.FILES: no file part (<<>>) or the one chunk file (<<content>>)
FileParts == {<<>>} \cup {<<c>> : c \in Chunks}

\* A Content-Range header is absent (<<>>), or a text that the pattern
\* rejects (<<"bytes">>), or "bytes <start>-<end>/<total>", written
\* <<"bytes", start, end, total>>.
NoHeader == <<>>
Malformed == <<"bytes">>
RangeHeaders == {<<"bytes", s, e, t>> : s \in 0..MaxPos, e \in 0..MaxPos, t \in 0..MaxPos}
Headers == {NoHeader, Malformed} \cup RangeHeaders

\* content_range_pattern.match(content_range) is not None
ContentRangeMatch(header) == Len(header) = 4

\* match.groups(), as integers
Groups(header) == [start |-> header[2], end |-> header[3], total |-> header[4]]

(************************ the ChunkedUpload model **************************)
RECURSIVE SumBytes(_)
SumBytes(s) == IF s = <<>> THEN 0 ELSE Head(s) + SumBytes(Tail(s))

\* ChunkedUpload.md5: the digest of the file's content.  A two-valued hash
\* of the bytes and their number; different contents may collide.
Md5(content) == IF (SumBytes(content) + Len(content)) % 2 = 0 THEN "d0" ELSE "d1"

\* ChunkedUpload.expired: now - created_on exceeds the expiration window
Expired(r, t) == t - r.created_on > EXPIRATION_DELTA

\* the smallest file name the storage does not hold
FreshFile(fs) ==
    CHOOSE f \in 1..(MaxFiles + 1) :
        /\ f \notin DOMAIN fs
        /\ \A g \in 1..(f - 1) : g \in DOMAIN fs

\* the id of an instance that was never saved (chunked_upload.id is None)
NoId == 0

\* self.model(**kw): an unsaved instance with the model's field defaults
NewInstance(user, upload_id, file) ==
    [id |-> NoId, user |-> user, upload_id |-> upload_id, offset |-> 0,
     status |-> UPLOADING, created_on |-> NULL, completed_on |-> NULL,
     file |-> file]

\* storage.save / FieldFile.save(name, content, save=False): a new file
FileSave(fs, name, content) ==
    [f \in DOMAIN fs \cup {name} |-> IF f = name THEN content ELSE fs[f]]

\* storage.delete(path)
FileDelete(fs, name) == [f \in DOMAIN fs \ {name} |-> fs[f]]

\* _save, line 77: new = chunked_upload.id is None
IsNew(r) == r.id = NoId

\* the instance as it is after save().  A new instance is inserted and gets
\* the next primary key pk; an instance with an id updates the row of that
\* id, and is inserted again, under its id, when the row is gone.
\* created_on is set on every insert.
Saved(db, r, t, pk) ==
    IF IsNew(r) THEN [r EXCEPT !.id = pk, !.created_on = t]
    ELSE IF \E x \in db : x.id = r.id THEN r
    ELSE [r EXCEPT !.created_on = t]

\* ChunkedUpload.save(): the table after it
ModelSave(db, r, t, pk) ==
    {x \in db : x.id # Saved(db, r, t, pk).id} \cup {Saved(db, r, t, pk)}

\* the primary key of the next insert, after a handler has left the table db
NextId(db, pk) == IF \E x \in db : x.id = pk THEN pk + 1 ELSE pk

\* ChunkedUpload.delete(): the row of the instance, and the backing file
ModelDeleteRows(db, r) == {x \in db : x.id # r.id}
ModelDeleteFiles(fs, r) == FileDelete(fs, r.file)

\* ChunkedUpload.expires_on
ExpiresOn(r) == r.created_on + EXPIRATION_DELTA

\* ChunkedUpload.append_chunk(chunk, chunk_size, save=False) accepts the
\* chunk only if its length is the length the range announces
ChunkFits(chunk, chunk_size) == Len(chunk) = chunk_size

\* ChunkedUpload.append_chunk: the bytes are appended to the file ...
AppendFile(fs, r, chunk) == [fs EXCEPT ![r.file] = @ \o chunk]

\* ... and the offset advances by the number of bytes appended
AppendOffset(r, chunk) == [r EXCEPT !.offset = @ + Len(chunk)]

(****************************** responses **********************************)
\* What a handler leaves behind: the table, the storage and the response.
\* A response carries the HTTP status, the error detail ("" on success) and
\* the data of get_response_data; the command's output carries n and total.
Response(code, detail, upload_id, offset, expires) ==
    [code |-> code, detail |-> detail, upload_id |-> upload_id,
     offset |-> offset, expires |-> expires, n |-> NULL, total |-> NULL]

\* raise BadRequest / Gone / an exception that is not an APIException
Raise(code, detail) == Response(code, detail, None, NULL, NULL)

\* path: how post came by the record it works on ("" when it has none)
Outcome(db, fs, r, path) == [store |-> db, files |-> fs, resp |-> r, path |-> path]

NoPath == ""
Found == "found"
Created == "created"
Restarted == "restarted"

\* exceptions.py: the status codes of the two exceptions
BadRequest == 400
Gone == 410
\* an exception that is no APIException ends the request with a server error
ServerError == 500
OK == 200

NoChunkMsg == "No chunk file was submitted"
NoMd5Msg == "No md5 was submitted"
MissingRangeMsg == "Missing Content-Range header"
WrongRangeMsg == "Wrong Content-Range header"
ExpiredMsg == "Upload has expired"
CompleteMsg == "Upload has already been marked as complete"
FailedMsg == "Upload has already been marked as failed"
OffsetMsg == "Offsets do not match"
Md5Msg == "md5 checksum does not match"
InvalidChunkMsg == "InvalidChunk"
MultipleMsg == "MultipleObjectsReturned"
NotAResponseMsg == "view returned a tuple, not a Response"
TypeErrorMsg == "TypeError"

(************************** ChunkedUploadBaseView **************************)
\* get_queryset(request).filter(upload_id=upload_id): the rows of the user
\* with that upload id (queryset.get takes the one there is)
\* a queryset that is not filtered by the user
GetQuerysetOfAll(db, user) == db

GetQueryset(db, user) == {r \in db : r.user = user}

GetUpload(db, user, upload_id) ==
    {r \in GetQueryset(db, user) : r.upload_id = upload_id}

\* ChunkedUploadView.get_response_data
GetResponseData(r) == Response(OK, "", r.upload_id, r.offset, ExpiresOn(r))

\* a _save that saves new instances only
SaveNewOnly(db, r, t, pk) == IF ~IsNew(r) THEN db ELSE ModelSave(db, r, t, pk)

\* _save: pre_save, save and post_save; the hooks do nothing
Save(db, r, t, pk) == ModelSave(db, r, t, pk)

(**************************** ChunkedUploadView ****************************)
\* create_chunked_upload: the file the new instance owns (it starts empty) ...
CreateFiles(fs) == FileSave(fs, FreshFile(fs), <<>>)

\* ... and the new, unsaved instance
CreateChunkedUpload(fs, user, upload_id) ==
    NewInstance(user, upload_id, FreshFile(fs))

\* is_valid_chunked_upload without the check of the expiry
IsValidIgnoringExpiry(r, t) ==
    IF r.status = COMPLETE THEN Raise(BadRequest, CompleteMsg)
    ELSE IF r.status = FAILED THEN Raise(BadRequest, FailedMsg)
    ELSE Raise(OK, "")

\* is_valid_chunked_upload without the check of the status FAILED
IsValidIgnoringFailed(r, t) ==
    IF Expired(r, t) THEN Raise(Gone, ExpiredMsg)
    ELSE IF r.status = COMPLETE THEN Raise(BadRequest, CompleteMsg)
    ELSE Raise(OK, "")

\* is_valid_chunked_upload: the exception it raises, or OK
IsValidChunkedUpload(r, t) ==
    IF Expired(r, t) THEN Raise(Gone, ExpiredMsg)
    ELSE IF r.status = COMPLETE THEN Raise(BadRequest, CompleteMsg)
    ELSE IF r.status = FAILED THEN Raise(BadRequest, FailedMsg)
    ELSE Raise(OK, "")

\* a chunk size that leaves out the last byte of the range
ChunkSizeExclusive(start, end) == end - start

\* post, line 175
ChunkSize(start, end) == end - start + 1

\* post, line 180: the test that ends the request of a chunk that is not the last
NotComplete(end, total) == end < total

\* an offset check that lets a range start beyond the offset
OffsetBeyondStart(r, start) == r.offset > start

\* an offset check that takes a range from zero for a continuation
OffsetDiffersUnlessZero(r, start) == r.offset # start /\ start # 0

\* post, line 166: the range does not continue the upload
OffsetDiffers(r, start) == r.offset # start

\* md5_check: the digest of the file differs from the one the client sent
Md5Differs(content, md5) == Md5(content) # md5

\* a completion that marks the upload COMPLETE and sets no completed_on
CompleteWithoutTimestamp(db, fs, t, pk, r, md5, path) ==
    IF r.status = COMPLETE
    THEN Outcome(db, fs, Raise(ServerError, NotAResponseMsg), path)
    ELSE IF Md5Differs(fs[r.file], md5)
    THEN Outcome(Save(db, [r EXCEPT !.status = FAILED], t, pk), fs,
                 Raise(BadRequest, Md5Msg), path)
    ELSE LET done == [r EXCEPT !.status = COMPLETE]
         IN  Outcome(Save(db, done, t, pk), fs,
                     GetResponseData(Saved(db, done, t, pk)), path)

\* post, lines 184-192 and md5_check: the upload is complete
Complete(db, fs, t, pk, r, md5, path) ==
    IF r.status = COMPLETE
    THEN \* "return BadRequest, ...": a tuple is returned, nothing is raised
         Outcome(db, fs, Raise(ServerError, NotAResponseMsg), path)
    ELSE IF Md5Differs(fs[r.file], md5)
    THEN Outcome(Save(db, [r EXCEPT !.status = FAILED], t, pk), fs,
                 Raise(BadRequest, Md5Msg), path)
    ELSE LET done == [r EXCEPT !.status = COMPLETE, !.completed_on = t]
         IN  Outcome(Save(db, done, t, pk), fs,
                     GetResponseData(Saved(db, done, t, pk)), path)

\* post, lines 174-192: save the chunk, then answer
SaveChunk(db, fs, t, pk, r, chunk, md5, m, path) ==
    IF ~ChunkFits(chunk, ChunkSize(m.start, m.end))
    THEN Outcome(db, fs, Raise(ServerError, InvalidChunkMsg), path)
    ELSE LET fs2 == AppendFile(fs, r, chunk)
             r2 == Saved(db, AppendOffset(r, chunk), t, pk)
             db2 == Save(db, AppendOffset(r, chunk), t, pk)
         IN  IF NotComplete(m.end, m.total)
             THEN Outcome(db2, fs2, GetResponseData(r2), path)
             ELSE Complete(db2, fs2, t, pk, r2, md5, path)

\* an offset check that restarts the upload on every mismatch
CheckOffsetRestartsAlways(db, fs, t, pk, r, user, chunk, md5, m, path) ==
    IF OffsetDiffers(r, m.start)
    THEN LET db2 == ModelDeleteRows(db, r)
             fs2 == ModelDeleteFiles(fs, r)
         IN  SaveChunk(db2, CreateFiles(fs2), t, pk,
                       CreateChunkedUpload(fs2, user, md5), chunk, md5, m,
                       Restarted)
    ELSE SaveChunk(db, fs, t, pk, r, chunk, md5, m, path)

\* an offset check whose restart keeps the old record and its file
CheckOffsetKeepingOld(db, fs, t, pk, r, user, chunk, md5, m, path) ==
    IF OffsetDiffers(r, m.start)
    THEN IF m.start = 0
         THEN SaveChunk(db, CreateFiles(fs), t, pk,
                        CreateChunkedUpload(fs, user, md5), chunk, md5, m,
                        Restarted)
         ELSE Outcome(db, fs, Response(BadRequest, OffsetMsg, None, r.offset, NULL),
                      path)
    ELSE SaveChunk(db, fs, t, pk, r, chunk, md5, m, path)

\* post, lines 166-172: the offset check, with the restart from zero
CheckOffset(db, fs, t, pk, r, user, chunk, md5, m, path) ==
    IF OffsetDiffers(r, m.start)
    THEN IF m.start = 0
         THEN LET db2 == ModelDeleteRows(db, r)
                  fs2 == ModelDeleteFiles(fs, r)
              IN  SaveChunk(db2, CreateFiles(fs2), t, pk,
                            CreateChunkedUpload(fs2, user, md5), chunk, md5, m,
                            Restarted)
         ELSE Outcome(db, fs, Response(BadRequest, OffsetMsg, None, r.offset, NULL),
                      path)
    ELSE SaveChunk(db, fs, t, pk, r, chunk, md5, m, path)

\* post, lines 159-164: get or create the model
GetOrCreate(db, fs, t, pk, user, chunk, md5, m) ==
    LET found == GetUpload(db, user, md5)
    IN  IF Cardinality(found) > 1
        THEN Outcome(db, fs, Raise(ServerError, MultipleMsg), NoPath)
        ELSE IF found # {}
        THEN LET r == CHOOSE x \in found : TRUE
                 valid == IsValidChunkedUpload(r, t)
             IN  IF valid.code # OK
                 THEN Outcome(db, fs, valid, Found)
                 ELSE CheckOffset(db, fs, t, pk, r, user, chunk, md5, m, Found)
        ELSE CheckOffset(db, CreateFiles(fs), t, pk,
                         CreateChunkedUpload(fs, user, md5), user, chunk, md5, m,
                         Created)

\* validate: the placeholder for extra validation; as it is, it raises nothing
Validate(request) == Raise(OK, "")

\* a post that gets or creates the model before it calls validate
PostValidatingLate(hook, db, fs, t, pk, request) ==
    IF request.file = <<>>
    THEN Outcome(db, fs, Raise(BadRequest, NoChunkMsg), NoPath)
    ELSE IF request.md5 = None
    THEN Outcome(db, fs, Raise(BadRequest, NoMd5Msg), NoPath)
    ELSE IF request.content_range = NoHeader
    THEN Outcome(db, fs, Raise(BadRequest, MissingRangeMsg), NoPath)
    ELSE IF ~ContentRangeMatch(request.content_range)
    THEN Outcome(db, fs, Raise(BadRequest, WrongRangeMsg), NoPath)
    ELSE LET out == GetOrCreate(db, fs, t, pk, request.user, request.file[1],
                                request.md5, Groups(request.content_range))
         IN  IF hook.code # OK THEN Outcome(out.store, out.files, hook, NoPath)
             ELSE out

\* post, lines 136-157: check input data; hook is what validate raises (OK
\* when it raises nothing)
PostValidating(hook, db, fs, t, pk, request) ==
    IF request.file = <<>>
    THEN Outcome(db, fs, Raise(BadRequest, NoChunkMsg), NoPath)
    ELSE IF request.md5 = None
    THEN Outcome(db, fs, Raise(BadRequest, NoMd5Msg), NoPath)
    ELSE IF request.content_range = NoHeader
    THEN Outcome(db, fs, Raise(BadRequest, MissingRangeMsg), NoPath)
    ELSE IF ~ContentRangeMatch(request.content_range)
    THEN Outcome(db, fs, Raise(BadRequest, WrongRangeMsg), NoPath)
    ELSE IF hook.code # OK
    THEN Outcome(db, fs, hook, NoPath)
    ELSE GetOrCreate(db, fs, t, pk, request.user, request.file[1], request.md5,
                     Groups(request.content_range))

\* post, with validate as the view defines it
PostOutcome(db, fs, t, pk, request) ==
    PostValidating(Validate(request), db, fs, t, pk, request)

\* the request: who sends it, request.FILES, request.POST['md5'] and the header
Request(user, part, md5, header) ==
    [user |-> user, file |-> part, md5 |-> md5, content_range |-> header]

\* ChunkedUploadView.post
Post(user, part, md5, header) ==
    \E out \in {PostOutcome(store, files, now, nextid,
                           Request(user, part, md5, header))} :
        /\ DOMAIN out.files \subseteq 1..MaxFiles
        /\ NextId(out.store, nextid) <= MaxIds + 1
        /\ nextid' = NextId(out.store, nextid)
        /\ store' = out.store
        /\ files' = out.files
        /\ resp' = out.resp
        /\ last' = [op |-> "POST", path |-> out.path]
        /\ UNCHANGED <<now, pending>>

(************************* ChunkedUploadOffsetView *************************)
\* an offset view that answers an unknown id with an error
GetOutcomeNotFound(db, user, upload_id) ==
    LET found == GetUpload(db, user, upload_id)
    IN  IF found = {} THEN Raise(BadRequest, "Not found")
        ELSE Response(OK, "", None, (CHOOSE x \in found : TRUE).offset, NULL)

GetOutcome(db, user, upload_id) ==
    LET found == GetUpload(db, user, upload_id)
    IN  IF Cardinality(found) > 1 THEN Raise(ServerError, MultipleMsg)
        ELSE IF found # {}
        THEN Response(OK, "", None, (CHOOSE x \in found : TRUE).offset, NULL)
        ELSE Response(OK, "", None, 0, NULL)

\* ChunkedUploadOffsetView.get
Get(user, upload_id) ==
    /\ resp' = GetOutcome(store, user, upload_id)
    /\ last' = [op |-> "GET", path |-> NoPath]
    /\ UNCHANGED <<store, files, now, pending, nextid>>

(************************** delete_expired_uploads *************************)
\* a filter that takes the expired uploads in progress only
ExpiredRowsInProgress(db, t) ==
    {r \in db : r.created_on < t - EXPIRATION_DELTA /\ r.status = UPLOADING}

\* qs.filter(created_on__lt=(timezone.now() - EXPIRATION_DELTA))
ExpiredRows(db, t) == {r \in db : r.created_on < t - EXPIRATION_DELTA}

\* Command.handle.  With --pretend the rows are counted.  Without it
\* qs.delete() removes the rows (a bulk delete: the files stay in the
\* storage), and what it returns is no number, so that the final print of
\* '%d' fails after the deletion.
HandleOutcome(db, fs, t, pretend) ==
    LET expired == ExpiredRows(db, t)
    IN  IF pretend
        THEN Outcome(db, fs,
                     [Raise(0, "") EXCEPT !.n = Cardinality(expired),
                                          !.total = Cardinality(db)],
                     NoPath)
        ELSE Outcome(db \ expired, fs,
                     [Raise(1, TypeErrorMsg) EXCEPT !.total = Cardinality(db)],
                     NoPath)

\* the command, run
Handle(pretend) ==
    LET out == HandleOutcome(store, files, now, pretend)
    IN  /\ store' = out.store
        /\ files' = out.files
        /\ resp' = out.resp
        /\ last' = [op |-> "sweep", path |-> NoPath]
        /\ UNCHANGED <<now, pending, nextid>>

(******************************** the clock ********************************)
Tick ==
    /\ now < MaxTime
    /\ now' = now + 1
    /\ UNCHANGED <<store, files, resp, last, pending, nextid>>

(***************************** specification *******************************)
\* the workers that serve requests, and a worker that serves none
Workers == {1, 2}
Idle ==
    [pc |-> "idle", request |-> Request("", <<>>, None, NoHeader),
     r |-> NewInstance("", None, 0), path |-> NoPath]

Init ==
    /\ store = {}
    /\ files = <<>>
    /\ now = 0
    /\ resp = Raise(0, "")
    /\ last = [op |-> "", path |-> NoPath]
    /\ pending = [w \in Workers |-> Idle]
    /\ nextid = 1

\* Of the requests that fail a check of the input, one for each check is
\* sent: what post does not look at is left out of the request.
Told(part, md5, header) ==
    /\ part = <<>> => md5 = None
    /\ md5 = None => header = NoHeader

\* the requests of the users U with the file parts P, the ids D and the
\* Content-Range headers H; the command; the clock
NextOn(U, P, D, H) ==
    \/ \E user \in U, part \in P, md5 \in D, header \in H :
          Told(part, md5, header) /\ Post(user, part, md5, header)
    \/ \E user \in U, upload_id \in D \ {None} : Get(user, upload_id)
    \/ \E pretend \in BOOLEAN : Handle(pretend)
    \/ Tick

\* the requests of the users U with the upload ids D
NextOf(U, D) == NextOn(U, FileParts, D \cup {None}, Headers)

Next == NextOf(Users, UploadIds)

Spec == Init /\ [][Next]_vars

\* The same handlers with two users who send the same upload id, in chunks
\* of one byte with a range of one byte.
Owners == {"alice", "bob"}
ByteParts == {<<c>> : c \in [1..1 -> Bytes]}
ByteRanges == {h \in RangeHeaders : h[2] = h[3] /\ h[2] <= 1}
NextOwners == NextOn(Owners, ByteParts, UploadIds, ByteRanges)
SpecOwners == Init /\ [][NextOwners]_vars

(***************************************************************************)
(* PostSteps: post as the steps it takes on the table and the storage, one  *)
(* call on either per step: it reads its record (line 160), checks it and   *)
(* deletes it for a restart (162-168), creates the file of a new instance   *)
(* (164, 169), appends the chunk to the file (176), saves the record (177), *)
(* reads the file for its checksum (198-199) and saves the record as        *)
(* COMPLETE or FAILED (189-191, 200-201).  A request may be aborted while   *)
(* the chunk is appended, and the requests of several workers may           *)
(* interleave.                                                              *)
(* Each worker holds its instance of the record in memory from the step     *)
(* that reads it.                                                           *)
(***************************************************************************)
AbortedMsg == "request aborted"
FileGoneMsg == "IOError"

\* post, lines 136-157: the exception that the checks of the input raise, or OK
CheckInput(request) ==
    IF request.file = <<>> THEN Raise(BadRequest, NoChunkMsg)
    ELSE IF request.md5 = None THEN Raise(BadRequest, NoMd5Msg)
    ELSE IF request.content_range = NoHeader THEN Raise(BadRequest, MissingRangeMsg)
    ELSE IF ~ContentRangeMatch(request.content_range)
    THEN Raise(BadRequest, WrongRangeMsg)
    ELSE Validate(request)

\* a worker ends its request with a response
Respond(w, response, path) ==
    /\ resp' = response
    /\ last' = [op |-> "POST", path |-> path]
    /\ pending' = [pending EXCEPT ![w] = Idle]

\* a worker goes on to the step pc with the instance r
GoOn(w, pc, r, path) ==
    /\ pending' = [pending EXCEPT ![w].pc = pc, ![w].r = r, ![w].path = path]
    /\ UNCHANGED <<resp, last>>

\* post, lines 136-160: the checks of the input, and get_upload
Begin(w, user, part, md5, header) ==
    LET request == Request(user, part, md5, header)
        input == CheckInput(request)
        found == GetUpload(store, user, md5)
    IN  /\ pending[w].pc = "idle"
        /\ UNCHANGED <<store, files, now, nextid>>
        /\ IF input.code # OK THEN Respond(w, input, NoPath)
           ELSE IF Cardinality(found) > 1
           THEN Respond(w, Raise(ServerError, MultipleMsg), NoPath)
           ELSE /\ pending' = [pending EXCEPT ![w] =
                       [pc |-> IF found = {} THEN "create" ELSE "check",
                        request |-> request,
                        r |-> IF found = {} THEN Idle.r
                              ELSE CHOOSE x \in found : TRUE,
                        path |-> IF found = {} THEN Created ELSE Found]]
                /\ UNCHANGED <<resp, last>>

\* post, lines 161-172 for a record that was found: is_valid_chunked_upload
\* and the offset check on the instance read before; chunked_upload.delete()
\* for a restart
CheckUpload(w) ==
    LET p == pending[w]
        m == Groups(p.request.content_range)
        valid == IsValidChunkedUpload(p.r, now)
    IN  /\ p.pc = "check"
        /\ UNCHANGED <<now, nextid>>
        /\ IF valid.code # OK
           THEN Respond(w, valid, p.path) /\ UNCHANGED <<store, files>>
           ELSE IF ~OffsetDiffers(p.r, m.start)
           THEN GoOn(w, "append", p.r, p.path) /\ UNCHANGED <<store, files>>
           ELSE IF m.start = 0
           THEN /\ store' = ModelDeleteRows(store, p.r)
                /\ files' = ModelDeleteFiles(files, p.r)
                /\ GoOn(w, "create", p.r, Restarted)
           ELSE /\ Respond(w, Response(BadRequest, OffsetMsg, None, p.r.offset,
                                       NULL), p.path)
                /\ UNCHANGED <<store, files>>

\* create_chunked_upload (lines 164 and 169), and the offset check of the
\* new instance
CreateUpload(w) ==
    LET p == pending[w]
        m == Groups(p.request.content_range)
        r == CreateChunkedUpload(files, p.request.user, p.request.md5)
    IN  /\ p.pc = "create"
        /\ DOMAIN CreateFiles(files) \subseteq 1..MaxFiles
        /\ files' = CreateFiles(files)
        /\ UNCHANGED <<store, now, nextid>>
        /\ IF OffsetDiffers(r, m.start)
           THEN Respond(w, Response(BadRequest, OffsetMsg, None, r.offset, NULL),
                        p.path)
           ELSE GoOn(w, "append", r, p.path)

\* the file opened to append: a file that is gone is created by the open
AppendTo(fs, name, bytes) ==
    IF name \in DOMAIN fs THEN [fs EXCEPT ![name] = @ \o bytes]
    ELSE FileSave(fs, name, bytes)

\* the files of the model hold at most MaxBlob bytes
MaxBlob == MaxPos + 2
Fits(fs) == \A f \in DOMAIN fs : Len(fs[f]) <= MaxBlob

\* post, lines 175-176: append_chunk(chunk, chunk_size, save=False)
AppendChunk(w) ==
    LET p == pending[w]
        m == Groups(p.request.content_range)
        chunk == p.request.file[1]
    IN  /\ p.pc = "append"
        /\ UNCHANGED <<store, now, nextid>>
        /\ IF ~ChunkFits(chunk, ChunkSize(m.start, m.end))
           THEN /\ Respond(w, Raise(ServerError, InvalidChunkMsg), p.path)
                /\ UNCHANGED files
           ELSE /\ Fits(AppendTo(files, p.r.file, chunk))
                /\ files' = AppendTo(files, p.r.file, chunk)
                /\ GoOn(w, "save", AppendOffset(p.r, chunk), p.path)

\* an abort of a request that saved its record before it appended the chunk
AbortAfterSave(w, n) ==
    LET p == pending[w]
        chunk == p.request.file[1]
    IN  /\ p.pc = "append"
        /\ n \in 0..Len(chunk)
        /\ Fits(AppendTo(files, p.r.file, SubSeq(chunk, 1, n)))
        /\ files' = AppendTo(files, p.r.file, SubSeq(chunk, 1, n))
        /\ store' = Save(store, AppendOffset(p.r, chunk), now, nextid)
        /\ nextid' = NextId(store', nextid)
        /\ resp' = Raise(ServerError, AbortedMsg)
        /\ last' = [op |-> "abort", path |-> p.path]
        /\ pending' = [pending EXCEPT ![w] = Idle]
        /\ UNCHANGED now

\* the request is aborted while the chunk is appended: n bytes of the chunk
\* have reached the file, the record has not been saved
AbortAppend(w, n) ==
    LET p == pending[w]
        chunk == p.request.file[1]
    IN  /\ p.pc = "append"
        /\ n \in 0..Len(chunk)
        /\ Fits(AppendTo(files, p.r.file, SubSeq(chunk, 1, n)))
        /\ files' = AppendTo(files, p.r.file, SubSeq(chunk, 1, n))
        /\ resp' = Raise(ServerError, AbortedMsg)
        /\ last' = [op |-> "abort", path |-> p.path]
        /\ pending' = [pending EXCEPT ![w] = Idle]
        /\ UNCHANGED <<store, now, nextid>>

\* post, lines 177-182: _save, and the response of a chunk that is not the last
SaveAppended(w) ==
    LET p == pending[w]
        m == Groups(p.request.content_range)
        r2 == Saved(store, p.r, now, nextid)
    IN  /\ p.pc = "save"
        /\ NextId(Save(store, p.r, now, nextid), nextid) <= MaxIds + 1
        /\ store' = Save(store, p.r, now, nextid)
        /\ nextid' = NextId(store', nextid)
        /\ UNCHANGED <<files, now>>
        /\ IF NotComplete(m.end, m.total)
           THEN Respond(w, GetResponseData(r2), p.path)
           ELSE GoOn(w, "complete", r2, p.path)

\* post, lines 184-188, and md5_check, lines 198-199: the race guard on the
\* instance, and the checksum of the file, which md5_check opens
CheckMd5(w) ==
    LET p == pending[w]
    IN  /\ p.pc = "complete"
        /\ UNCHANGED <<store, files, now, nextid>>
        /\ IF p.r.status = COMPLETE
           THEN Respond(w, Raise(ServerError, NotAResponseMsg), p.path)
           ELSE IF p.r.file \notin DOMAIN files
           THEN Respond(w, Raise(ServerError, FileGoneMsg), p.path)
           ELSE IF Md5Differs(files[p.r.file], p.request.md5)
           THEN GoOn(w, "failed", p.r, p.path)
           ELSE GoOn(w, "completed", p.r, p.path)

\* md5_check, lines 200-202, and post, lines 189-192: the status is set and
\* saved, and the request is answered
CompleteUpload(w) ==
    LET p == pending[w]
        r == IF p.pc = "failed" THEN [p.r EXCEPT !.status = FAILED]
             ELSE [p.r EXCEPT !.status = COMPLETE, !.completed_on = now]
    IN  /\ p.pc \in {"failed", "completed"}
        /\ store' = Save(store, r, now, nextid)
        /\ nextid' = NextId(store', nextid)
        /\ UNCHANGED <<files, now>>
        /\ IF p.pc = "failed"
           THEN Respond(w, Raise(BadRequest, Md5Msg), p.path)
           ELSE Respond(w, GetResponseData(Saved(store, r, now, nextid)), p.path)

\* the steps of the workers W for the requests with the parts P, the ids D
\* and the headers H
PostSteps(W, P, D, H) ==
    \/ \E w \in W, user \in Users, part \in P, md5 \in D, header \in H :
          Begin(w, user, part, md5, header)
    \/ \E w \in W : CheckUpload(w)
    \/ \E w \in W : CreateUpload(w)
    \/ \E w \in W : AppendChunk(w)
    \/ \E w \in W : \E n \in 0..MaxChunk : AbortAppend(w, n)
    \/ \E w \in W : SaveAppended(w)
    \/ \E w \in W : CheckMd5(w)
    \/ \E w \in W : CompleteUpload(w)

\* one worker: requests follow each other, and may be aborted
NextAbort == PostSteps({1}, ByteParts, UploadIds, ByteRanges) \/ Tick
SpecAbort == Init /\ [][NextAbort]_vars

\* two workers: the requests for an upload of two bytes, sent byte by byte,
\* interleave
RaceRanges == {h \in RangeHeaders : h[2] = h[3] /\ h[4] = 2}
NextRace == PostSteps(Workers, ByteParts, UploadIds, RaceRanges)
SpecRace == Init /\ [][NextRace]_vars

(***************************************************************************)
(* Vocabulary of the properties.  A property of post is stated of its       *)
(* outcome, for every request, in every reachable state.                    *)
(***************************************************************************)
\* the requests that pass the check of the input data
ChunkPosts ==
    {Request(u, <<c>>, d, h) : u \in Users, c \in Chunks, d \in UploadIds,
                               h \in RangeHeaders}

After(q) == PostOutcome(store, files, now, nextid, q)
Range(q) == Groups(q.content_range)
ChunkOf(q) == q.file[1]

\* the persisted records a request is about, before and after it
RecordsOf(db, q) == {r \in db : r.user = q.user /\ r.upload_id = q.md5}

\* the request continues its upload: there is no record and the range starts
\* at 0, or the record is in progress, not expired, and the range starts at
\* its offset
Continues(q) ==
    \/ RecordsOf(store, q) = {} /\ Range(q).start = 0
    \/ \E r \in RecordsOf(store, q) :
          /\ ~(now - r.created_on > EXPIRATION_DELTA)
          /\ r.status = UPLOADING
          /\ Range(q).start = r.offset

\* the content of the upload before the request
PriorBlob(q) ==
    IF RecordsOf(store, q) = {} THEN <<>>
    ELSE files[(CHOOSE r \in RecordsOf(store, q) : TRUE).file]

\* the chunk has the length that the range announces
LengthMatches(q) == Len(ChunkOf(q)) = Range(q).end - Range(q).start + 1

(***************************************************************************)
(* C1: a chunk that continues the upload and ends before the total size     *)
(* (rangeEnd + 1 < totalSize) leaves the record IN_PROGRESS and answers the *)
(* new offset; the chunk with rangeEnd + 1 = totalSize and a matching       *)
(* checksum makes the record COMPLETE and sets completed_on.                *)
(***************************************************************************)
C1_FinalChunkCompletes ==
    \A q \in ChunkPosts :
        Continues(q) /\ LengthMatches(q) =>
            LET out == After(q)
                size == Len(PriorBlob(q)) + Len(ChunkOf(q))
            IN  /\ Range(q).end + 1 < Range(q).total =>
                      /\ out.resp.code = OK
                      /\ out.resp.offset = size
                      /\ \E r \in RecordsOf(out.store, q) :
                            r.status = UPLOADING /\ r.offset = size
                /\ ( /\ Range(q).end + 1 = Range(q).total
                     /\ Md5(PriorBlob(q) \o ChunkOf(q)) = q.md5 ) =>
                      /\ out.resp.code = OK
                      /\ \E r \in RecordsOf(out.store, q) :
                            /\ r.status = COMPLETE
                            /\ r.completed_on = now
                            /\ r.offset = size

(***************************************************************************)
(* C2: a record is COMPLETE exactly if its chunks were accepted to the end, *)
(* the length of its blob and its offset are the total size that the final  *)
(* chunk declares, and the checksum of the blob is the one sent with it; no *)
(* record is COMPLETE with an offset that differs from the total size.      *)
(***************************************************************************)
C2_CompleteIffWholeAndChecked ==
    \A q \in ChunkPosts :
        Continues(q) /\ LengthMatches(q) =>
            LET out == After(q)
                blob == PriorBlob(q) \o ChunkOf(q)
            IN  (\E r \in RecordsOf(out.store, q) : r.status = COMPLETE)
                <=> ( /\ Len(blob) = Range(q).total
                      /\ \E r \in RecordsOf(out.store, q) :
                            r.offset = Range(q).total
                      /\ Md5(blob) = q.md5 )

(***************************************************************************)
(* C3 as claimed: a chunk with rangeStart # record.offset and               *)
(* rangeStart # 0 always fails with the offset mismatch (BadRequest, 400)   *)
(* and leaves the record's offset, status and blob as they were.            *)
(***************************************************************************)
C3_AlwaysOffsetMismatch ==
    \A q \in ChunkPosts : \A r \in RecordsOf(store, q) :
        Range(q).start # r.offset /\ Range(q).start # 0 =>
            LET out == After(q)
            IN  /\ out.resp.code = BadRequest
                /\ out.resp.detail = OffsetMsg
                /\ out.store = store
                /\ out.files = files

(***************************************************************************)
(* C3 amended: a chunk with rangeStart # record.offset and rangeStart # 0   *)
(* always fails and leaves the table and the storage as they were; it fails *)
(* with Gone (410) if the record has expired, with the BadRequest (400) of  *)
(* a COMPLETE or FAILED record if it is one, and with the offset mismatch   *)
(* (BadRequest, 400, naming the record's offset) otherwise.                 *)
(***************************************************************************)
C3_OffsetMismatch ==
    \A q \in ChunkPosts : \A r \in RecordsOf(store, q) :
        Range(q).start # r.offset /\ Range(q).start # 0 =>
            LET out == After(q)
            IN  /\ out.store = store
                /\ out.files = files
                /\ out.resp =
                     IF now - r.created_on > EXPIRATION_DELTA
                     THEN Raise(Gone, ExpiredMsg)
                     ELSE IF r.status = COMPLETE THEN Raise(BadRequest, CompleteMsg)
                     ELSE IF r.status = FAILED THEN Raise(BadRequest, FailedMsg)
                     ELSE Response(BadRequest, OffsetMsg, None, r.offset, NULL)

\* a request on a record in progress was answered with the offset mismatch
C3_Witness ==
    /\ last = [op |-> "POST", path |-> Found]
    /\ resp.code = BadRequest
    /\ resp.detail = OffsetMsg
    /\ \E r \in store : r.status = UPLOADING /\ r.offset = resp.offset

(***************************************************************************)
(* C4 as claimed: a chunk with rangeStart = 0 on an existing record always  *)
(* discards the record and its blob and starts a fresh record whose offset  *)
(* is the length of the new chunk, whatever the prior offset and status.    *)
(***************************************************************************)
C4_AlwaysRestarts ==
    \A q \in ChunkPosts : \A r \in RecordsOf(store, q) :
        Range(q).start = 0 =>
            LET out == After(q)
            IN  /\ out.path = Restarted
                /\ \E x \in out.store :
                      /\ RecordsOf(out.store, q) = {x}
                      /\ x.offset = Len(ChunkOf(q))
                      /\ out.files[x.file] = ChunkOf(q)

(***************************************************************************)
(* C4 amended: a chunk with rangeStart = 0, of the length its range         *)
(* announces, on an existing record that is IN_PROGRESS and not expired     *)
(* discards the record and its blob and starts a fresh record, created now, *)
(* whose offset is the length of the new chunk and whose blob is the chunk, *)
(* whatever the prior offset.                                               *)
(***************************************************************************)
C4_Restart ==
    \A q \in ChunkPosts : \A r \in RecordsOf(store, q) :
        ( /\ Range(q).start = 0
          /\ LengthMatches(q)
          /\ r.status = UPLOADING
          /\ ~(now - r.created_on > EXPIRATION_DELTA) ) =>
            LET out == After(q)
            IN  /\ out.path = Restarted
                /\ \E x \in out.store :
                      /\ RecordsOf(out.store, q) = {x}
                      /\ x.offset = Len(ChunkOf(q))
                      /\ x.created_on = now
                      /\ out.files[x.file] = ChunkOf(q)
                      /\ DOMAIN out.files = (DOMAIN files \ {r.file}) \cup {x.file}

\* a restart was accepted at a time when the record it begot is not the first
C4_Witness ==
    /\ last = [op |-> "POST", path |-> Restarted]
    /\ resp.code = OK
    /\ \E x \in store : x.created_on > 0 /\ Len(files[x.file]) = x.offset

(***************************************************************************)
(* C5: once now - created_on exceeds the expiration window, every chunk for *)
(* the record fails with Gone (410) and neither appends to the blob nor     *)
(* changes the offset or the status, whatever its range.                    *)
(***************************************************************************)
C5_ExpiredIsGone ==
    \A q \in ChunkPosts : \A r \in RecordsOf(store, q) :
        now - r.created_on > EXPIRATION_DELTA =>
            LET out == After(q)
            IN  /\ out.resp = Raise(Gone, ExpiredMsg)
                /\ out.store = store
                /\ out.files = files

\* a chunk for an upload in progress that has expired was answered with Gone
C5_Witness ==
    /\ last = [op |-> "POST", path |-> Found]
    /\ resp.code = Gone
    /\ \E r \in store :
          /\ r.status = UPLOADING
          /\ r.offset >= 1
          /\ now - r.created_on > EXPIRATION_DELTA

(***************************************************************************)
(* C6 as claimed: every chunk for a COMPLETE or FAILED record fails with    *)
(* the BadRequest (400) that names its status, and changes nothing.         *)
(***************************************************************************)
C6_AlwaysInvalidState ==
    \A q \in ChunkPosts : \A r \in RecordsOf(store, q) :
        r.status \in {COMPLETE, FAILED} =>
            LET out == After(q)
            IN  /\ out.resp = Raise(BadRequest,
                                    IF r.status = COMPLETE THEN CompleteMsg
                                    ELSE FailedMsg)
                /\ out.store = store
                /\ out.files = files

\* what post does with a chunk for a COMPLETE or FAILED record
TerminalRefused ==
    \A q \in ChunkPosts : \A r \in RecordsOf(store, q) :
        r.status \in {COMPLETE, FAILED} =>
            LET out == After(q)
            IN  /\ out.resp =
                     IF now - r.created_on > EXPIRATION_DELTA
                     THEN Raise(Gone, ExpiredMsg)
                     ELSE Raise(BadRequest,
                                IF r.status = COMPLETE THEN CompleteMsg
                                ELSE FailedMsg)
                /\ out.store = store
                /\ out.files = files

\* a COMPLETE or FAILED record stays as it is, with its blob, in every step
\* but the one of the command that deletes it, expired
TerminalStays ==
    \A r \in store :
        r.status \in {COMPLETE, FAILED} =>
            \/ r \in store' /\ files'[r.file] = files[r.file]
            \/ /\ last'.op = "sweep"
               /\ now - r.created_on > EXPIRATION_DELTA
               /\ \A x \in store' : x.file # r.file

(***************************************************************************)
(* C6 amended: a COMPLETE or FAILED record is terminal: every later chunk   *)
(* for it fails, with the BadRequest (400) that names its status or, once   *)
(* the record has expired, with Gone (410), before any byte is appended and *)
(* before any checksum is computed; its offset, blob and status never       *)
(* change again, and the record goes only when the command deletes it,      *)
(* expired.                                                                 *)
(***************************************************************************)
C6_Terminal == []TerminalRefused /\ [][TerminalStays]_vars

\* a chunk for a COMPLETE or FAILED record was refused for its status
C6_Witness ==
    /\ last = [op |-> "POST", path |-> Found]
    /\ resp.code = BadRequest
    /\ \E r \in store :
          \/ r.status = COMPLETE /\ resp.detail = CompleteMsg
          \/ r.status = FAILED /\ resp.detail = FailedMsg

(***************************************************************************)
(* C7: the final chunk of an upload (rangeEnd + 1 = totalSize) with a       *)
(* checksum that differs from the one of the assembled blob makes the       *)
(* record FAILED, fails with the BadRequest of the checksum mismatch, sets  *)
(* no completed_on, and leaves the offset at the total size.                *)
(***************************************************************************)
C7_WrongChecksumFails ==
    \A q \in ChunkPosts :
        ( /\ Continues(q)
          /\ LengthMatches(q)
          /\ Range(q).end + 1 = Range(q).total
          /\ Md5(PriorBlob(q) \o ChunkOf(q)) # q.md5 ) =>
            LET out == After(q)
            IN  /\ out.resp = Raise(BadRequest, Md5Msg)
                /\ \E r \in RecordsOf(out.store, q) :
                      /\ r.status = FAILED
                      /\ r.completed_on = NULL
                      /\ r.offset = Range(q).total

(***************************************************************************)
(* C8: in every reachable state the offset of each persisted record is the  *)
(* number of bytes in its blob.                                             *)
(***************************************************************************)
C8_OffsetIsBlobLength ==
    \A r \in store : r.file \in DOMAIN files /\ r.offset = Len(files[r.file])

\* a second chunk was appended to a persisted record
C8_Witness ==
    /\ last = [op |-> "POST", path |-> Found]
    /\ resp.code = OK
    /\ \E r \in store : r.offset >= 2 /\ resp.offset = r.offset

(***************************************************************************)
(* C9 as claimed: a chunk whose length differs from                         *)
(* rangeEnd - rangeStart + 1 always fails with InvalidChunk, and neither    *)
(* appends to a blob nor advances an offset.                                *)
(***************************************************************************)
C9_AlwaysInvalidChunk ==
    \A q \in ChunkPosts :
        Len(ChunkOf(q)) # Range(q).end - Range(q).start + 1 =>
            \A out \in {After(q)} :
                /\ out.resp.detail = InvalidChunkMsg
                /\ \A x \in out.store :
                      x \in store /\ out.files[x.file] = files[x.file]

(***************************************************************************)
(* C9 amended: a chunk whose length differs from rangeEnd - rangeStart + 1  *)
(* always fails, appends to no blob and advances no offset.  It fails with  *)
(* Gone (410) if the record has expired, with the BadRequest (400) of a     *)
(* COMPLETE or FAILED record if it is one, with the offset mismatch         *)
(* (BadRequest, 400) if rangeStart is neither the offset nor 0 (for an id   *)
(* without a record: if rangeStart is not 0), and with InvalidChunk         *)
(* otherwise.  The table and the storage are left as they were, but for     *)
(* the file of the instance that post creates: for an id without a record   *)
(* an empty file is added; and where the range restarts a valid upload from *)
(* 0, the old record and its blob are already deleted when InvalidChunk is  *)
(* raised, and the empty file of the new instance is there instead.         *)
(***************************************************************************)
C9_InvalidChunk ==
    \A q \in ChunkPosts :
        Len(ChunkOf(q)) # Range(q).end - Range(q).start + 1 =>
            \A out \in {After(q)} :
                IF RecordsOf(store, q) = {}
                THEN /\ out.resp =
                          IF Range(q).start # 0
                          THEN Response(BadRequest, OffsetMsg, None, 0, NULL)
                          ELSE Raise(ServerError, InvalidChunkMsg)
                     /\ out.store = store
                     /\ out.files = FileSave(files, FreshFile(files), <<>>)
                ELSE \A r \in RecordsOf(store, q) :
                     IF now - r.created_on > EXPIRATION_DELTA
                     THEN /\ out.resp = Raise(Gone, ExpiredMsg)
                          /\ out.store = store /\ out.files = files
                     ELSE IF r.status \in {COMPLETE, FAILED}
                     THEN /\ out.resp =
                               Raise(BadRequest, IF r.status = COMPLETE
                                                 THEN CompleteMsg ELSE FailedMsg)
                          /\ out.store = store /\ out.files = files
                     ELSE IF Range(q).start = r.offset
                     THEN /\ out.resp = Raise(ServerError, InvalidChunkMsg)
                          /\ out.store = store /\ out.files = files
                     ELSE IF Range(q).start # 0
                     THEN /\ out.resp =
                               Response(BadRequest, OffsetMsg, None, r.offset, NULL)
                          /\ out.store = store /\ out.files = files
                     ELSE /\ out.resp = Raise(ServerError, InvalidChunkMsg)
                          /\ out.store = store \ {r}
                          /\ out.files = FileSave(FileDelete(files, r.file),
                                                  r.file, <<>>)

\* a chunk of the wrong length for a persisted record was refused
C9_Witness ==
    /\ last = [op |-> "POST", path |-> Found]
    /\ resp.detail = InvalidChunkMsg
    /\ \E r \in store : r.status = UPLOADING

(***************************************************************************)
(* C10: the offset view answers 0, and no error, when the user has no       *)
(* record with the id, and the persisted offset of the record otherwise; it *)
(* creates, changes and deletes no record.                                  *)
(***************************************************************************)
OffsetAnswered ==
    \A u \in Users, id \in Digests :
        LET mine == {r \in store : r.user = u /\ r.upload_id = id}
            answer == GetOutcome(store, u, id)
        IN  /\ answer.code = OK
            /\ answer.detail = ""
            /\ mine = {} => answer.offset = 0
            /\ \A r \in mine : answer.offset = r.offset

GetChangesNothing == last'.op = "GET" => store' = store /\ files' = files

C10_QueryOffset == []OffsetAnswered /\ [][GetChangesNothing]_vars

\* the offset of an id without a record was asked for and answered with 0
C10_Witness ==
    /\ last.op = "GET"
    /\ store = {}
    /\ resp.code = OK
    /\ resp.offset = 0

(***************************************************************************)
(* C11: the command with --pretend deletes no record and reports the number *)
(* of records that the command without --pretend, run on the same records   *)
(* at the same time, deletes and reports as deleted.                        *)
(***************************************************************************)
C11_PretendReportsWhatSweepDeletes ==
    LET dry == HandleOutcome(store, files, now, TRUE)
        wet == HandleOutcome(store, files, now, FALSE)
    IN  /\ dry.store = store
        /\ dry.files = files
        /\ dry.resp.n = Cardinality(store \ wet.store)
        /\ wet.resp.n = dry.resp.n

(***************************************************************************)
(* C12: the command without --pretend deletes exactly the records whose     *)
(* created_on is older than the expiration window, whatever their status,   *)
(* and leaves every other record, with its offset, status and blob, as it   *)
(* was.                                                                     *)
(***************************************************************************)
C12_SweepDeletesExactlyExpired ==
    LET wet == HandleOutcome(store, files, now, FALSE)
    IN  /\ wet.store = {r \in store : ~(now - r.created_on > EXPIRATION_DELTA)}
        /\ \A r \in wet.store :
              /\ r.file \in DOMAIN wet.files
              /\ wet.files[r.file] = files[r.file]

\* the command without --pretend found one record, and deleted it
C12_Witness ==
    /\ last.op = "sweep"
    /\ resp.detail = TypeErrorMsg
    /\ resp.total = 1
    /\ store = {}

(***************************************************************************)
(* C13: after any sequence of chunk requests, restarts and sweeps there is  *)
(* at most one persisted record for each pair of owner and upload id; a     *)
(* restart from zero leaves one record of the pair, never the old and the   *)
(* new one.                                                                 *)
(***************************************************************************)
C13_OneRecordPerOwnerAndId ==
    \A r1 \in store, r2 \in store :
        r1.user = r2.user /\ r1.upload_id = r2.upload_id => r1 = r2

\* an upload was restarted from zero while the other owner has a record
\* with the same id
C13_Witness ==
    /\ last = [op |-> "POST", path |-> Restarted]
    /\ resp.code = OK
    /\ Cardinality(store) = 2

(***************************************************************************)
(* C14: the persisted offset of an owner's upload id never decreases from   *)
(* one step to the next, except in a step where post restarts the upload    *)
(* with a range that starts at 0 (the old record is deleted and replaced),  *)
(* or where the sweep deletes the record.                                   *)
(***************************************************************************)
\* the requests of the two owners
OwnerPosts ==
    {Request(u, p, d, h) : u \in Owners, p \in ByteParts, d \in UploadIds,
                           h \in ByteRanges}

\* of every chunk request: the record it is about keeps or advances its
\* offset, unless the range starts at 0 and the upload is restarted
PostKeepsOffset ==
    \A q \in OwnerPosts : \A r \in RecordsOf(store, q) :
        LET out == After(q)
        IN  \/ \E x \in RecordsOf(out.store, q) : x.offset >= r.offset
            \/ Range(q).start = 0 /\ out.path = Restarted

\* of every step: each record is still there with an offset that is not
\* smaller, or the step is a restart, or the sweep has deleted the record
OffsetNeverDecreases ==
    \A r \in store :
        LET after == {x \in store' : x.user = r.user /\ x.upload_id = r.upload_id}
        IN  \/ \E x \in after : x.offset >= r.offset
            \/ last' = [op |-> "POST", path |-> Restarted]
            \/ /\ last'.op = "sweep"
               /\ after = {}
               /\ now - r.created_on > EXPIRATION_DELTA

C14_OffsetMonotone == []PostKeepsOffset /\ [][OffsetNeverDecreases]_vars

\* the second chunk of an upload was appended while the other owner has a
\* record with the same id
C14_Witness ==
    /\ last = [op |-> "POST", path |-> Found]
    /\ resp.code = OK
    /\ resp.offset = 2
    /\ Cardinality(store) = 2

(***************************************************************************)
(* C15: post persists the record only after the chunk has been appended to  *)
(* the blob.  While the chunk is appended, and when the request is aborted  *)
(* during the append, the persisted record holds the offset and the status  *)
(* it had before; its blob may have more bytes than the offset says, never  *)
(* fewer.                                                                   *)
(***************************************************************************)
\* s is the beginning of t
IsPrefix(s, t) == Len(s) <= Len(t) /\ SubSeq(t, 1, Len(s)) = s

\* the persisted record of the instance a worker holds
PersistedOf(db, w) == {x \in db : x.id = pending[w].r.id}

\* no blob is shorter than the offset of its record; and a record whose chunk
\* is appended and not yet saved has the offset and status from before
BlobCoversOffset ==
    /\ \A r \in store : r.file \in DOMAIN files /\ r.offset <= Len(files[r.file])
    /\ \A w \in Workers :
          pending[w].pc = "save" =>
              \A x \in PersistedOf(store, w) :
                  /\ x.offset = pending[w].r.offset - Len(pending[w].request.file[1])
                  /\ x.status = UPLOADING

\* the step that appends, or is aborted while it appends, writes no record,
\* and takes no byte from a blob
AppendWritesNoRecord ==
    \A w \in Workers :
        pending[w].pc = "append" /\ pending'[w].pc # "append" =>
            /\ store' = store
            /\ \A f \in DOMAIN files :
                  f \in DOMAIN files' /\ IsPrefix(files[f], files'[f])

C15_SavedAfterAppend == []BlobCoversOffset /\ [][AppendWritesNoRecord]_vars

\* a request for a persisted record was aborted after bytes of its chunk
\* had reached the blob
C15_Witness ==
    /\ last = [op |-> "abort", path |-> Found]
    /\ \E r \in store : r.offset >= 1 /\ Len(files[r.file]) > r.offset

(***************************************************************************)
(* C16: when two requests with the final chunk of an upload interleave, the *)
(* request that comes to the completion of the upload after the record has  *)
(* been marked COMPLETE fails with InvalidState (BadRequest): it does not   *)
(* check the checksum and does not set COMPLETE or completed_on again.      *)
(***************************************************************************)
\* of the step that a request takes when it has come to the completion and
\* its record is COMPLETE
CompletesOnce ==
    \A w \in Workers :
        /\ pending[w].pc = "complete"
        /\ pending'[w] # pending[w]
        /\ \E x \in PersistedOf(store, w) : x.status = COMPLETE
        => /\ pending'[w].pc = "idle"
           /\ resp'.code = BadRequest
           /\ resp'.detail = CompleteMsg
           /\ store' = store

C16_RaceGuard == [][CompletesOnce]_vars

(***************************************************************************)
(* C17: a chunk request without a chunk file, without an identifier, with   *)
(* no Content-Range header or one that the pattern rejects, or one that the *)
(* validation hook refuses, fails with BadRequest (400) before any record   *)
(* is looked up, created, deleted or modified and before any blob is        *)
(* created or appended to.                                                  *)
(***************************************************************************)
\* what a validate hook may raise: nothing, or a BadRequest of its own
HookMsg == "validation failed"
Hooks == {Raise(OK, ""), Raise(BadRequest, HookMsg)}

C17_RejectedBeforeLookup ==
    \A u \in Users, p \in FileParts, d \in UploadIds \cup {None}, h \in Headers,
       hook \in Hooks :
        LET input == IF p = <<>> THEN NoChunkMsg
                     ELSE IF d = None THEN NoMd5Msg
                     ELSE IF h = NoHeader THEN MissingRangeMsg
                     ELSE IF h = Malformed THEN WrongRangeMsg
                     ELSE IF hook.code # OK THEN HookMsg
                     ELSE ""
        IN  input # "" =>
                \A out \in {PostValidating(hook, store, files, now, nextid,
                                           Request(u, p, d, h))} :
                    /\ out.resp = Raise(BadRequest, input)
                    /\ out.path = NoPath
                    /\ out.store = store
                    /\ out.files = files

\* a request with a Content-Range header that the pattern rejects, for a user
\* who has an upload in the table, was refused
C17_Witness ==
    /\ last = [op |-> "POST", path |-> NoPath]
    /\ resp = Raise(BadRequest, WrongRangeMsg)
    /\ store # {}

(***************************************************************************)
(* C18: a chunk request that ends in an error, for an id of which the user  *)
(* has no record, leaves the table and the storage as they were: no record  *)
(* is persisted, and no blob is left without a persisted record that owns   *)
(* it.                                                                      *)
(***************************************************************************)
C18_ErrorLeavesNothing ==
    \A q \in ChunkPosts :
        LET out == After(q)
        IN  RecordsOf(store, q) = {} /\ out.resp.code # OK =>
                /\ out.store = store
                /\ \A f \in DOMAIN out.files :
                      f \in DOMAIN files \/ \E r \in out.store : r.file = f

(***************************************************************************)
(* C19: owner isolation.  A chunk request and an offset query of a user     *)
(* read, create, delete and change records of that user only: the records   *)
(* and blobs of the other users are as before, also when they have the same *)
(* upload id; and the response, and the user's records after the request,   *)
(* are the same as in the run where the other users have no records.        *)
(***************************************************************************)
\* the records of a user, and the files that they own
Mine(db, u) == {r \in db : r.user = u}
MyFiles(db, fs, u) ==
    [f \in {r.file : r \in Mine(db, u)} \cap DOMAIN fs |-> fs[f]]

\* what a user's uploads are, whatever the names of the files
Uploads(db, fs, u) ==
    {[upload_id |-> r.upload_id, offset |-> r.offset, status |-> r.status,
      created_on |-> r.created_on, completed_on |-> r.completed_on,
      blob |-> fs[r.file]] : r \in Mine(db, u)}

OthersUntouched ==
    \A q \in OwnerPosts :
        \A out \in {After(q)}, b \in Owners \ {q.user} :
            /\ Mine(out.store, b) = Mine(store, b)
            /\ MyFiles(out.store, out.files, b) = MyFiles(store, files, b)

SameWithoutOthers ==
    \A q \in OwnerPosts :
        \A out \in {After(q)},
           alone \in {PostOutcome(Mine(store, q.user),
                                  MyFiles(store, files, q.user), now, nextid, q)} :
            /\ out.resp = alone.resp
            /\ Uploads(out.store, out.files, q.user)
                   = Uploads(alone.store, alone.files, q.user)

SameOffsetWithoutOthers ==
    \A u \in Owners, id \in UploadIds :
        GetOutcome(store, u, id) = GetOutcome(Mine(store, u), u, id)

C19_OwnerIsolation ==
    OthersUntouched /\ SameWithoutOthers /\ SameOffsetWithoutOthers

\* both owners have an upload with the same id, at different offsets, and
\* the last request was a chunk that was accepted
C19_Witness ==
    /\ last.op = "POST"
    /\ resp.code = OK
    /\ \E a \in Mine(store, "alice"), b \in Mine(store, "bob") :
          a.upload_id = b.upload_id /\ a.offset # b.offset

(***************************************************************************)
(* C20: in every reachable state a persisted record has completed_on set    *)
(* if and only if its status is COMPLETE: a record IN_PROGRESS or FAILED    *)
(* has no completion time, and a COMPLETE record has one.                   *)
(***************************************************************************)
C20_CompletedOnIffComplete ==
    \A r \in store : (r.completed_on # NULL) <=> (r.status = COMPLETE)

\* a record was completed by the request handled last, at the present time
C20_Witness ==
    /\ last.op = "POST"
    /\ resp.code = OK
    /\ \E r \in store : r.status = COMPLETE /\ r.completed_on = now

====
